---- MODULE Spec2Model ----
(***************************************************************************)
(* Rule-to-agent routing and execution planning of the underwriting        *)
(* agent (tools/agent_router.py).                                          *)
(*                                                                         *)
(* The class-level tables ROUTING_MAP, PREREQUISITES and RISK_LEVELS are   *)
(* mutable Python dictionaries, so they are state.  Every public entry     *)
(* point is one action: it picks its arguments, records them in `call`,    *)
(* and records what the call returned or raised in `ret`.  Spec is the     *)
(* program; SpecHistory adds the history variable `memo`, which remembers  *)
(* one get_required_agents call so that a later call can be compared.      *)
(*                                                                         *)
(* SpecValidate applies validate_structured_rules to a dict of rules.      *)
(* SpecRegistry is the PolicyExecutor (tools/policy_executor.py) with its  *)
(* registry and the rules file: load_rules, save_rules and the lookups.    *)
(* SpecRefresh is rule generation, one policy per step, with the lookups   *)
(* another caller makes while a run is under way.                          *)
(* SpecFrame is every call of the router and of the planner, with a caller *)
(* that changes the list it was returned.  SpecDecision is the             *)
(* UnderwritingDecision (models/application.py) and its findings, with the *)
(* finalization of section 4.5 of the specification.                       *)
(***************************************************************************)
EXTENDS Integers, Sequences, FiniteSets, TLC

VARIABLES
    ROUTING_MAP,      \* ReviewRuleRouter.ROUTING_MAP: rule name -> list of AgentType
    PREREQUISITES,    \* ReviewRuleRouter.PREREQUISITES: rule name -> list of AgentType
    RISK_LEVELS,      \* ReviewRuleRouter.RISK_LEVELS: rule name -> risk level
    call,             \* the last call made: its name and its arguments
    ret,              \* what the last call returned, or the error it raised
    memo,             \* history: one earlier get_required_agents call and its result
    rules_dict,       \* the dict a caller holds, loaded from structured_rules.json
    rules_file,       \* what the rules file at `filepath` holds
    structured_rules, \* PolicyExecutor.structured_rules: rule name -> StructuredRule
    vector_store,     \* PolicyExecutor.vector_store is set (not None)
    llm,              \* PolicyExecutor.llm is set (not None)
    generating,       \* generate_structured_rules under way: its local variables
    round_trip,       \* history: a registry saved, a fresh executor, its load
    reader,           \* history: the registry a lookup was answered from during a run
    last_load,        \* history: the registry the last successful load_rules built
    caller,           \* the list object the caller holds from the last call
    decision,         \* the UnderwritingDecision of the application, or None
    aggregator,       \* the aggregator of the application: its state and criteria
    findings_log      \* history: the findings given at construction and added since

vars ==
    <<ROUTING_MAP, PREREQUISITES, RISK_LEVELS, call, ret, memo, rules_dict,
      rules_file, structured_rules, vector_store, llm, generating, round_trip, reader,
      last_load, caller, decision, aggregator, findings_log>>

\* The decision of an application and what is kept about it.
decision_vars == <<decision, aggregator, findings_log>>

\* What the calls of the router and of the planner never touch.
registry_vars ==
    <<rules_dict, rules_file, structured_rules, vector_store, llm, generating,
      round_trip, reader, last_load, decision_vars>>

\* Longest list of review rules handed to get_agent_execution_plan.
MaxRules == 3

\* Most rules in a dict handed to validate_structured_rules.
MaxValidated == 4

\* Most rules in a rules file and in the registry an executor starts with.
MaxFileRules == 2

\* Number of policies in the vector store that a generation run walks through.
MaxPolicies == 2

\* Longest list of review rules planned while a get_required_agents result is
\* remembered (SpecHistory).
MaxRulesBetween == 1

\* Most rules in a dict validated between the other calls (SpecFrame).
MaxFrameRules == 1

\* Most findings added to one decision.
MaxFindings == 2

----------------------------------------------------------------------------
(* Values *)

\* class AgentType(Enum): member name -> member value
AgentType == [IDENTITY |-> "identity", INCOME |-> "income", FRAUD |-> "fraud"]

\* The four review rules of the routing table, in the table's key order.
KnownRules ==
    <<"IDENTITY_VERIFICATION", "INCOME_VALIDATION", "FRAUD_CHECK", "HIGH_RISK_PROFILE">>

\* Rule names a caller may pass: the four known ones and one the tables lack.
RuleNames ==
    {"IDENTITY_VERIFICATION", "INCOME_VALIDATION", "FRAUD_CHECK",
     "HIGH_RISK_PROFILE", "ADDRESS_CHECK"}

Range(s) == {s[i] : i \in 1..Len(s)}

\* A call that returned `v`.
Return(v) == [ok |-> TRUE, value |-> v]

\* A call that raised ValueError(f"Unknown review rule: {rule}. Valid rules: {valid}").
RaiseValueError(rule, valid) ==
    [ok |-> FALSE, error |-> "ValueError", unknown_rule |-> rule, valid_rules |-> valid]

\* Mutant: HIGH_RISK_PROFILE routed without the fraud agent.
ROUTING_MAP_initial_ProfileWithoutFraud ==
    [IDENTITY_VERIFICATION |-> <<"IDENTITY">>,
     INCOME_VALIDATION     |-> <<"INCOME">>,
     FRAUD_CHECK           |-> <<"FRAUD">>,
     HIGH_RISK_PROFILE     |-> <<"IDENTITY", "INCOME">>]

ROUTING_MAP_initial ==
    [IDENTITY_VERIFICATION |-> <<"IDENTITY">>,
     INCOME_VALIDATION     |-> <<"INCOME">>,
     FRAUD_CHECK           |-> <<"FRAUD">>,
     HIGH_RISK_PROFILE     |-> <<"IDENTITY", "INCOME", "FRAUD">>]

PREREQUISITES_initial ==
    [FRAUD_CHECK |-> <<"IDENTITY", "INCOME">>]

RISK_LEVELS_initial ==
    [IDENTITY_VERIFICATION |-> "HIGH",
     INCOME_VALIDATION     |-> "MEDIUM",
     FRAUD_CHECK           |-> "CRITICAL",
     HIGH_RISK_PROFILE     |-> "HIGH"]

----------------------------------------------------------------------------
(* ReviewRuleRouter *)

\* list(cls.ROUTING_MAP.keys()): the keys in insertion order.
get_all_review_rules ==
    SelectSeq(KnownRules, LAMBDA r : r \in DOMAIN ROUTING_MAP)

\* for agent in source: if agent not in agents: agents.append(agent)
RECURSIVE AppendMissing(_, _)
AppendMissing(agents, source) ==
    IF source = <<>> THEN agents
    ELSE AppendMissing(
            IF Head(source) \in Range(agents) THEN agents
            ELSE Append(agents, Head(source)),
            Tail(source))

\* Mutant: the prerequisites are added behind the primary agents.
get_required_agents_PrerequisitesLast(review_rule, include_prerequisites) ==
    IF review_rule \notin DOMAIN ROUTING_MAP
    THEN RaiseValueError(review_rule, get_all_review_rules)
    ELSE LET primary == AppendMissing(<<>>, ROUTING_MAP[review_rule])
         IN  Return(IF include_prerequisites /\ review_rule \in DOMAIN PREREQUISITES
                    THEN AppendMissing(primary, PREREQUISITES[review_rule])
                    ELSE primary)

\* Mutant: the prerequisites are never added.
get_required_agents_WithoutPrerequisites(review_rule, include_prerequisites) ==
    IF review_rule \notin DOMAIN ROUTING_MAP
    THEN RaiseValueError(review_rule, get_all_review_rules)
    ELSE Return(AppendMissing(<<>>, ROUTING_MAP[review_rule]))

\* Mutant: include_prerequisites is not looked at.
get_required_agents_AlwaysPrerequisites(review_rule, include_prerequisites) ==
    IF review_rule \notin DOMAIN ROUTING_MAP
    THEN RaiseValueError(review_rule, get_all_review_rules)
    ELSE LET with_prerequisites ==
                IF review_rule \in DOMAIN PREREQUISITES
                THEN AppendMissing(<<>>, PREREQUISITES[review_rule])
                ELSE <<>>
         IN  Return(AppendMissing(with_prerequisites, ROUTING_MAP[review_rule]))

\* Mutant: cls.ROUTING_MAP.get(review_rule, []) in place of the membership test.
get_required_agents_DefaultsToEmpty(review_rule, include_prerequisites) ==
    LET with_prerequisites ==
            IF include_prerequisites /\ review_rule \in DOMAIN PREREQUISITES
            THEN AppendMissing(<<>>, PREREQUISITES[review_rule])
            ELSE <<>>
    IN  Return(AppendMissing(with_prerequisites,
                             IF review_rule \in DOMAIN ROUTING_MAP
                             THEN ROUTING_MAP[review_rule] ELSE <<>>))

get_required_agents(review_rule, include_prerequisites) ==
    IF review_rule \notin DOMAIN ROUTING_MAP
    THEN RaiseValueError(review_rule, get_all_review_rules)
    ELSE LET with_prerequisites ==
                IF include_prerequisites /\ review_rule \in DOMAIN PREREQUISITES
                THEN AppendMissing(<<>>, PREREQUISITES[review_rule])
                ELSE <<>>
         IN  Return(AppendMissing(with_prerequisites, ROUTING_MAP[review_rule]))

\* [agent.value for agent in agents]
AgentValues(agents) == [i \in 1..Len(agents) |-> AgentType[agents[i]]]

get_agent_names(review_rule, include_prerequisites) ==
    LET agents == get_required_agents(review_rule, include_prerequisites)
    IN  IF agents.ok THEN Return(AgentValues(agents.value)) ELSE agents

\* cls.RISK_LEVELS.get(review_rule, "MEDIUM")
get_risk_level(review_rule) ==
    IF review_rule \in DOMAIN RISK_LEVELS THEN RISK_LEVELS[review_rule] ELSE "MEDIUM"

\* Mutant: HIGH counts as critical too.
is_critical_rule_HighCounts(review_rule) ==
    get_risk_level(review_rule) \in {"CRITICAL", "HIGH"}

is_critical_rule(review_rule) == get_risk_level(review_rule) = "CRITICAL"

\* One summary record per rule of the routing table.
get_routing_summary ==
    [rule \in Range(get_all_review_rules) |->
        [primary_agents  |-> AgentValues(ROUTING_MAP[rule]),
         prerequisites   |-> AgentValues(IF rule \in DOMAIN PREREQUISITES
                                         THEN PREREQUISITES[rule] ELSE <<>>),
         execution_order |-> get_agent_names(rule, TRUE).value,
         risk_level      |-> get_risk_level(rule),
         is_critical     |-> is_critical_rule(rule)]]

----------------------------------------------------------------------------
(* get_agent_execution_plan *)

\* Mutant: MEDIUM rules are walked before HIGH ones.
priority_order_MediumBeforeHigh == [CRITICAL |-> 0, HIGH |-> 2, MEDIUM |-> 1]

priority_order == [CRITICAL |-> 0, HIGH |-> 1, MEDIUM |-> 2]

\* key=lambda r: priority_order.get(ReviewRuleRouter.get_risk_level(r), 3)
PriorityKey(r) ==
    LET level == get_risk_level(r)
    IN  IF level \in DOMAIN priority_order THEN priority_order[level] ELSE 3

\* Mutant: x goes in front of the elements of equal key (an unstable sort).
InsertByPriority_BeforeEqual(sorted_prefix, x) ==
    LET at == Cardinality({i \in 1..Len(sorted_prefix) :
                              PriorityKey(sorted_prefix[i]) < PriorityKey(x)})
    IN  SubSeq(sorted_prefix, 1, at) \o <<x>>
            \o SubSeq(sorted_prefix, at + 1, Len(sorted_prefix))

\* One step of a stable sort: x goes behind every element whose key is not larger.
InsertByPriority(sorted_prefix, x) ==
    LET at == Cardinality({i \in 1..Len(sorted_prefix) :
                              PriorityKey(sorted_prefix[i]) <= PriorityKey(x)})
    IN  SubSeq(sorted_prefix, 1, at) \o <<x>>
            \o SubSeq(sorted_prefix, at + 1, Len(sorted_prefix))

\* Mutant: the rules are walked in input order, unsorted.
SortByPriority_InputOrder(review_rules) == review_rules

\* sorted(review_rules, key=...): Python's sort is stable.
RECURSIVE SortByPriority(_)
SortByPriority(review_rules) ==
    IF review_rules = <<>> THEN <<>>
    ELSE InsertByPriority(
            SortByPriority(SubSeq(review_rules, 1, Len(review_rules) - 1)),
            review_rules[Len(review_rules)])

\* Mutant: all_agents.extend(required_agents), without the seen_agents test.
RECURSIVE MergeAgents_NoSeenTest(_, _)
MergeAgents_NoSeenTest(acc, required_agents) ==
    IF required_agents = <<>> THEN acc
    ELSE MergeAgents_NoSeenTest(
            [all_agents  |-> Append(acc.all_agents, Head(required_agents)),
             seen_agents |-> acc.seen_agents \cup {Head(required_agents)}],
            Tail(required_agents))

\* Mutant: an agent seen before is moved behind the agents placed so far.
RECURSIVE MergeAgents_MovesSeenAgent(_, _)
MergeAgents_MovesSeenAgent(acc, required_agents) ==
    IF required_agents = <<>> THEN acc
    ELSE LET agent == Head(required_agents)
         IN  MergeAgents_MovesSeenAgent(
                [all_agents  |-> Append(SelectSeq(acc.all_agents, LAMBDA a : a # agent),
                                        agent),
                 seen_agents |-> acc.seen_agents \cup {agent}],
                Tail(required_agents))

\* for agent in required_agents:
\*     if agent not in seen_agents: all_agents.append(agent); seen_agents.add(agent)
RECURSIVE MergeAgents(_, _)
MergeAgents(acc, required_agents) ==
    IF required_agents = <<>> THEN acc
    ELSE LET agent == Head(required_agents)
         IN  MergeAgents(
                IF agent \in acc.seen_agents THEN acc
                ELSE [all_agents  |-> Append(acc.all_agents, agent),
                      seen_agents |-> acc.seen_agents \cup {agent}],
                Tail(required_agents))

\* Mutant: a rule's detail record lists only the agents the rule added.
RECURSIVE PlanLoop_DetailsOfNewAgents(_, _, _)
PlanLoop_DetailsOfNewAgents(rules, acc, rule_details) ==
    IF rules = <<>>
    THEN Return([all_agents |-> acc.all_agents, rule_details |-> rule_details])
    ELSE LET rule == Head(rules)
             required_agents == get_required_agents(rule, TRUE)
         IN  IF ~required_agents.ok THEN required_agents
             ELSE PlanLoop_DetailsOfNewAgents(
                    Tail(rules),
                    MergeAgents(acc, required_agents.value),
                    Append(rule_details,
                           [rule        |-> rule,
                            risk_level  |-> get_risk_level(rule),
                            agents      |-> AgentValues(
                                SelectSeq(required_agents.value,
                                          LAMBDA a : a \notin acc.seen_agents)),
                            is_critical |-> is_critical_rule(rule)]))

\* Mutant: a rule get_required_agents rejects is left out of the plan.
RECURSIVE PlanLoop_SkipsUnknown(_, _, _)
PlanLoop_SkipsUnknown(rules, acc, rule_details) ==
    IF rules = <<>>
    THEN Return([all_agents |-> acc.all_agents, rule_details |-> rule_details])
    ELSE LET rule == Head(rules)
             required_agents == get_required_agents(rule, TRUE)
         IN  IF ~required_agents.ok
             THEN PlanLoop_SkipsUnknown(Tail(rules), acc, rule_details)
             ELSE PlanLoop_SkipsUnknown(
                    Tail(rules),
                    MergeAgents(acc, required_agents.value),
                    Append(rule_details,
                           [rule        |-> rule,
                            risk_level  |-> get_risk_level(rule),
                            agents      |-> AgentValues(required_agents.value),
                            is_critical |-> is_critical_rule(rule)]))

\* The loop over sorted_rules; the first rule get_required_agents rejects ends it.
RECURSIVE PlanLoop(_, _, _)
PlanLoop(rules, acc, rule_details) ==
    IF rules = <<>>
    THEN Return([all_agents |-> acc.all_agents, rule_details |-> rule_details])
    ELSE LET rule == Head(rules)
             required_agents == get_required_agents(rule, TRUE)
         IN  IF ~required_agents.ok THEN required_agents
             ELSE PlanLoop(
                    Tail(rules),
                    MergeAgents(acc, required_agents.value),
                    Append(rule_details,
                           [rule        |-> rule,
                            risk_level  |-> get_risk_level(rule),
                            agents      |-> AgentValues(required_agents.value),
                            is_critical |-> is_critical_rule(rule)]))

\* Mutant: has_critical_rules computed with all(...) in place of any(...).
get_agent_execution_plan_AllCritical(review_rules) ==
    LET sorted_rules == SortByPriority(review_rules)
        looped == PlanLoop(sorted_rules,
                           [all_agents |-> <<>>, seen_agents |-> {}], <<>>)
    IN  IF ~looped.ok THEN looped
        ELSE Return(
               [execution_order    |-> AgentValues(looped.value.all_agents),
                total_agents       |-> Len(looped.value.all_agents),
                rules_by_priority  |-> sorted_rules,
                rule_details       |-> looped.value.rule_details,
                has_critical_rules |->
                    \A i \in 1..Len(review_rules) : is_critical_rule(review_rules[i])])

get_agent_execution_plan(review_rules) ==
    LET sorted_rules == SortByPriority(review_rules)
        looped == PlanLoop(sorted_rules,
                           [all_agents |-> <<>>, seen_agents |-> {}], <<>>)
    IN  IF ~looped.ok THEN looped
        ELSE Return(
               [execution_order    |-> AgentValues(looped.value.all_agents),
                total_agents       |-> Len(looped.value.all_agents),
                rules_by_priority  |-> sorted_rules,
                rule_details       |-> looped.value.rule_details,
                has_critical_rules |->
                    \E i \in 1..Len(review_rules) : is_critical_rule(review_rules[i])])

----------------------------------------------------------------------------
(* Rules as JSON, and validate_structured_rules *)

\* {}: a dict without keys.
EmptyDict == <<>>

\* A rule as structured_rules.json holds it: every field of StructuredRule, the
\* nested objects with every field of theirs.  Floats are kept as their text.
RuleData(description, risk_level, required_agents) ==
    [description       |-> description,
     risk_level        |-> risk_level,
     required_agents   |-> required_agents,
     checks            |-> <<>>,
     decision_criteria |-> [approval_condition      |-> "all_pass",
                            min_confidence          |-> "0.8",
                            dti_threshold           |-> "None",
                            zero_tolerance_checks   |-> <<>>,
                            requires_manual_signoff |-> FALSE],
     workflow_config   |-> [parallel_execution |-> FALSE,
                            timeout_seconds    |-> 30,
                            retry_on_failure   |-> FALSE,
                            cascade_mode       |-> FALSE]]

\* The JSON object without one of its keys.
Without(rule_data, field) ==
    [k \in DOMAIN rule_data \ {field} |-> rule_data[k]]

\* The rule configurations validate_structured_rules is handed: the right one
\* of each review rule (HIGH_RISK_PROFILE's agents in another order), the wrong
\* agents with a HIGH risk level, and a rule lacking either field it reads.
RuleConfigs ==
    {RuleData("policy", "HIGH", <<"identity">>),
     RuleData("policy", "MEDIUM", <<"income">>),
     RuleData("policy", "CRITICAL", <<"fraud">>),
     RuleData("policy", "HIGH", <<"fraud", "identity", "income">>),
     RuleData("policy", "HIGH", <<"income">>),
     Without(RuleData("policy", "HIGH", <<"identity">>), "risk_level"),
     Without(RuleData("policy", "HIGH", <<"identity">>), "required_agents")}

\* Dicts of at most n rules, keyed by rule name.
RuleDicts(n) ==
    UNION {[names -> RuleConfigs] :
              names \in {S \in SUBSET RuleNames : Cardinality(S) <= n}}

\* Mutant: the expected agents are taken with the prerequisites.
ValidateRule_WithPrerequisites(rule_name, rule_config) ==
    IF rule_name \notin DOMAIN ROUTING_MAP
    THEN <<[kind |-> "unknown_rule", rule |-> rule_name]>>
    ELSE LET agent_warnings ==
                IF "required_agents" \notin DOMAIN rule_config
                THEN <<[kind |-> "missing_required_agents"]>>
                ELSE LET configured_agents == Range(rule_config.required_agents)
                         expected_agents == Range(get_agent_names(rule_name, TRUE).value)
                     IN  IF configured_agents # expected_agents
                         THEN <<[kind |-> "agent_mismatch",
                                 expected |-> expected_agents,
                                 got |-> configured_agents]>>
                         ELSE <<>>
             risk_warnings ==
                IF "risk_level" \in DOMAIN rule_config
                      /\ rule_config.risk_level # get_risk_level(rule_name)
                THEN <<[kind |-> "risk_level_mismatch",
                        expected |-> get_risk_level(rule_name),
                        got |-> rule_config.risk_level]>>
                ELSE <<>>
         IN  agent_warnings \o risk_warnings

\* Mutant: without the `continue`, the risk level of an unknown rule is checked
\* against the default of get_risk_level.
ValidateRule_UnknownRuleChecked(rule_name, rule_config) ==
    LET unknown_warnings ==
            IF rule_name \notin DOMAIN ROUTING_MAP
            THEN <<[kind |-> "unknown_rule", rule |-> rule_name]>> ELSE <<>>
        agent_warnings ==
            IF rule_name \notin DOMAIN ROUTING_MAP THEN <<>>
            ELSE IF "required_agents" \notin DOMAIN rule_config
            THEN <<[kind |-> "missing_required_agents"]>>
            ELSE LET configured_agents == Range(rule_config.required_agents)
                     expected_agents == Range(get_agent_names(rule_name, FALSE).value)
                 IN  IF configured_agents # expected_agents
                     THEN <<[kind |-> "agent_mismatch",
                             expected |-> expected_agents,
                             got |-> configured_agents]>>
                     ELSE <<>>
        risk_warnings ==
            IF "risk_level" \in DOMAIN rule_config
                  /\ rule_config.risk_level # get_risk_level(rule_name)
            THEN <<[kind |-> "risk_level_mismatch",
                    expected |-> get_risk_level(rule_name),
                    got |-> rule_config.risk_level]>>
            ELSE <<>>
    IN  unknown_warnings \o agent_warnings \o risk_warnings

\* The body of the loop over structured_rules.items(): the warnings of one rule.
\* A warning is kept as its kind and the values its text is formatted from.
ValidateRule(rule_name, rule_config) ==
    IF rule_name \notin DOMAIN ROUTING_MAP
    THEN <<[kind |-> "unknown_rule", rule |-> rule_name]>>
    ELSE LET agent_warnings ==
                IF "required_agents" \notin DOMAIN rule_config
                THEN <<[kind |-> "missing_required_agents"]>>
                ELSE LET configured_agents == Range(rule_config.required_agents)
                         expected_agents == Range(get_agent_names(rule_name, FALSE).value)
                     IN  IF configured_agents # expected_agents
                         THEN <<[kind |-> "agent_mismatch",
                                 expected |-> expected_agents,
                                 got |-> configured_agents]>>
                         ELSE <<>>
             risk_warnings ==
                IF "risk_level" \in DOMAIN rule_config
                      /\ rule_config.risk_level # get_risk_level(rule_name)
                THEN <<[kind |-> "risk_level_mismatch",
                        expected |-> get_risk_level(rule_name),
                        got |-> rule_config.risk_level]>>
                ELSE <<>>
         IN  agent_warnings \o risk_warnings

validate_structured_rules(rules) ==
    Return([rule_name \in DOMAIN rules |-> ValidateRule(rule_name, rules[rule_name])])

----------------------------------------------------------------------------
(* The schema of a rule, the rules file and the registry (tools/policy_executor.py) *)

\* None, as a lookup returns it.
None == [cls |-> "NoneType"]

\* No application is being evaluated.
NoAggregator == [state |-> "none"]
NoFindings == [initial |-> <<>>, added |-> <<>>]

\* A pydantic ValidationError.
ValidationError == [ok |-> FALSE, error |-> "ValidationError"]

\* The JSON object's value for the key, or the default of the field.
Get(data, key, default) == IF key \in DOMAIN data THEN data[key] ELSE default

\* CheckConfig(**data): name, description and tool are required.
CheckConfig(data) ==
    IF ~({"name", "description", "tool"} \subseteq DOMAIN data) THEN ValidationError
    ELSE Return([cls            |-> "CheckConfig",
                 name           |-> data.name,
                 description    |-> data.description,
                 tool           |-> data.tool,
                 required       |-> Get(data, "required", TRUE),
                 threshold      |-> Get(data, "threshold", "None"),
                 zero_tolerance |-> Get(data, "zero_tolerance", FALSE)])

\* WorkflowConfig(**data): every field has a default.
WorkflowConfig(data) ==
    Return([cls                |-> "WorkflowConfig",
            parallel_execution |-> Get(data, "parallel_execution", FALSE),
            timeout_seconds    |-> Get(data, "timeout_seconds", 30),
            retry_on_failure   |-> Get(data, "retry_on_failure", FALSE),
            cascade_mode       |-> Get(data, "cascade_mode", FALSE)])

\* DecisionCriteria(**data): approval_condition is required.
DecisionCriteria(data) ==
    IF "approval_condition" \notin DOMAIN data THEN ValidationError
    ELSE Return([cls                     |-> "DecisionCriteria",
                 approval_condition      |-> data.approval_condition,
                 min_confidence          |-> Get(data, "min_confidence", "0.8"),
                 dti_threshold           |-> Get(data, "dti_threshold", "None"),
                 zero_tolerance_checks   |-> Get(data, "zero_tolerance_checks", <<>>),
                 requires_manual_signoff |-> Get(data, "requires_manual_signoff", FALSE)])

\* StructuredRule(**rule_data): the model, or the ValidationError of a missing
\* required field, in the rule or in a nested object.  required_agents is a
\* List[str] and risk_level a str: any strings pass.
StructuredRule(rule_data) ==
    IF ~({"description", "risk_level", "required_agents", "decision_criteria",
          "workflow_config"} \subseteq DOMAIN rule_data)
    THEN ValidationError
    ELSE LET given_checks == Get(rule_data, "checks", <<>>)
             checks == [i \in 1..Len(given_checks) |-> CheckConfig(given_checks[i])]
             decision_criteria == DecisionCriteria(rule_data.decision_criteria)
             workflow_config == WorkflowConfig(rule_data.workflow_config)
         IN  IF \/ \E i \in 1..Len(checks) : ~checks[i].ok
                \/ ~decision_criteria.ok
                \/ ~workflow_config.ok
             THEN ValidationError
             ELSE Return([cls               |-> "StructuredRule",
                          description       |-> rule_data.description,
                          risk_level        |-> rule_data.risk_level,
                          required_agents   |-> rule_data.required_agents,
                          checks            |-> [i \in 1..Len(checks) |-> checks[i].value],
                          decision_criteria |-> decision_criteria.value,
                          workflow_config   |-> workflow_config.value])

\* The fields of a model as a dict, the model's class dropped.
DumpFields(model) == [k \in DOMAIN model \ {"cls"} |-> model[k]]

\* StructuredRule.model_dump(): nested models are dumped too.
model_dump(rule) ==
    [DumpFields(rule) EXCEPT
        !["checks"] = [i \in 1..Len(@) |-> DumpFields(@[i])],
        !["decision_criteria"] = DumpFields(@),
        !["workflow_config"] = DumpFields(@)]

\* The rules file: absent, text that is no JSON, or the JSON text of a value.
MissingFile == [kind |-> "missing"]
GarbageFile == [kind |-> "text"]

\* json.dump(value, f)
json_dump(value) == [kind |-> "json", value |-> value]

\* open(filepath) and json.load(f)
json_load(file) ==
    CASE file.kind = "missing" -> [ok |-> FALSE, error |-> "FileNotFoundError"]
      [] file.kind = "text"    -> [ok |-> FALSE, error |-> "JSONDecodeError"]
      [] file.kind = "json"    -> Return(file.value)

\* Rule names of policies: two review rules and the rule of the load test.
PolicyRuleNames == {"IDENTITY_VERIFICATION", "FRAUD_CHECK", "TEST_RULE"}

\* The sample rule of the load test: an agent name that is no agent kind.
TestRuleData ==
    [RuleData("Test rule", "MEDIUM", <<"test">>) EXCEPT
        !.checks = <<[name |-> "test_check", description |-> "Test",
                      tool |-> "test_tool", required |-> TRUE,
                      threshold |-> "None", zero_tolerance |-> FALSE]>>]

\* A rule written by hand, every field with a default left out.
HandWrittenRuleData ==
    [description       |-> "policy",
     risk_level        |-> "HIGH",
     required_agents   |-> <<"identity">>,
     decision_criteria |-> [approval_condition |-> "all_pass"],
     workflow_config   |-> EmptyDict]

\* The rules a file holds and the LLM extracts: a dumped rule, one naming an
\* agent twice, the test's sample, the hand-written one, and a malformed one.
FileRules ==
    {RuleData("policy", "HIGH", <<"identity">>),
     RuleData("policy", "HIGH", <<"identity", "identity">>),
     TestRuleData,
     HandWrittenRuleData,
     Without(RuleData("policy", "HIGH", <<"identity">>), "required_agents")}

\* The sets of at most n rule names.
NameSets(n) == {S \in SUBSET PolicyRuleNames : Cardinality(S) <= n}

\* What the rules file may hold: nothing, garbage, or a dict of at most n rules.
RuleFiles(n) ==
    {MissingFile, GarbageFile}
        \cup {json_dump(d) : d \in UNION {[names -> FileRules] : names \in NameSets(n)}}

\* The registries of at most n rules an executor may hold.
Registries(n) ==
    LET rules == {StructuredRule(d).value : d \in {f \in FileRules : StructuredRule(f).ok}}
    IN  UNION {[names -> rules] : names \in NameSets(n)}

\* vector_store.list_all_policies(): the sorted rule names of the stored policies.
list_all_policies ==
    SubSeq(<<"FRAUD_CHECK", "IDENTITY_VERIFICATION", "TEST_RULE">>, 1, MaxPolicies)

\* What the LLM may answer: text that is no JSON, or one of the rules as JSON.
LlmResponses == {GarbageFile} \cup {json_dump(d) : d \in FileRules}

\* _parse_policy_to_rule: the StructuredRule built from the LLM's answer, or
\* None when the answer is no JSON, lacks a key the method reads, or is
\* rejected by the schema.  Answers that are a JSON array are not drawn.
parse_policy_to_rule(content) ==
    LET rule_data == json_load(content)
    IN  IF ~rule_data.ok THEN None
        ELSE IF ~({"description", "risk_level", "required_agents", "checks",
                   "decision_criteria", "workflow_config"}
                     \subseteq DOMAIN rule_data.value)
        THEN None
        ELSE LET structured_rule == StructuredRule(rule_data.value)
             IN  IF structured_rule.ok THEN structured_rule.value ELSE None

\* Mutant: the assignment leaves key as the only entry.
Put_DroppingOthers(d, key, value) ==
    [k \in {key} |-> value]

\* d[key] = value
Put(d, key, value) ==
    [k \in DOMAIN d \cup {key} |-> IF k = key THEN value ELSE d[k]]

\* A RuntimeError with its message.
RaiseRuntimeError(message) ==
    [ok |-> FALSE, error |-> "RuntimeError", message |-> message]

\* A call that has not returned yet.
Running == [ok |-> FALSE, error |-> "NotReturned"]

NotGenerating == [active |-> FALSE]
NoRoundTrip == [phase |-> "none"]
NoReader == [during |-> FALSE]
NotLoaded == [set |-> FALSE]

\* Mutant: the entries the schema accepts are loaded, the others skipped.
load_rules_SkipsMalformed ==
    LET rules_json == json_load(rules_file)
    IN  IF ~rules_json.ok
        THEN [structured_rules |-> structured_rules, ret |-> Return(EmptyDict)]
        ELSE LET accepted == {n \in DOMAIN rules_json.value :
                                 StructuredRule(rules_json.value[n]).ok}
                 loaded == [n \in accepted |-> StructuredRule(rules_json.value[n]).value]
             IN  [structured_rules |-> loaded, ret |-> Return(loaded)]

\* Mutant: a failed load empties the registry.
load_rules_ClearsOnFailure ==
    LET rules_json == json_load(rules_file)
    IN  IF ~rules_json.ok
        THEN [structured_rules |-> EmptyDict, ret |-> Return(EmptyDict)]
        ELSE LET models == [n \in DOMAIN rules_json.value |->
                               StructuredRule(rules_json.value[n])]
             IN  IF \E n \in DOMAIN models : ~models[n].ok
                 THEN [structured_rules |-> EmptyDict, ret |-> Return(EmptyDict)]
                 ELSE LET built == [n \in DOMAIN models |-> models[n].value]
                      IN  [structured_rules |-> built, ret |-> Return(built)]

\* load_rules(filepath): the registry after the call and what the call returns.
\* Every failure is caught and answered with {}; self.structured_rules is
\* assigned only when every entry was built.
load_rules ==
    LET rules_json == json_load(rules_file)
    IN  IF ~rules_json.ok
        THEN [structured_rules |-> structured_rules, ret |-> Return(EmptyDict)]
        ELSE LET models == [n \in DOMAIN rules_json.value |->
                               StructuredRule(rules_json.value[n])]
             IN  IF \E n \in DOMAIN models : ~models[n].ok
                 THEN [structured_rules |-> structured_rules, ret |-> Return(EmptyDict)]
                 ELSE LET loaded == [n \in DOMAIN models |-> models[n].value]
                      IN  [structured_rules |-> loaded, ret |-> Return(loaded)]

\* save_rules(filepath): what the file holds after the call.  An empty registry
\* is not written.
save_rules ==
    IF structured_rules = EmptyDict THEN rules_file
    ELSE json_dump([rule_name \in DOMAIN structured_rules |->
                       model_dump(structured_rules[rule_name])])

\* Mutant: a name the registry lacks is answered with one of its rules.
get_rule_DefaultsToStoredRule(review_rule) ==
    IF review_rule \in DOMAIN structured_rules THEN structured_rules[review_rule]
    ELSE IF structured_rules # EmptyDict
    THEN structured_rules[CHOOSE n \in DOMAIN structured_rules : TRUE]
    ELSE None

\* get_workflow_config(review_rule): None, or a dict made of the rule's fields.
get_workflow_config(review_rule) ==
    IF review_rule \notin DOMAIN structured_rules THEN None
    ELSE LET rule == structured_rules[review_rule]
         IN  [review_rule     |-> review_rule,
              description     |-> rule.description,
              risk_level      |-> rule.risk_level,
              required_agents |-> rule.required_agents,
              checks          |-> [i \in 1..Len(rule.checks) |-> DumpFields(rule.checks[i])],
              workflow_config |-> DumpFields(rule.workflow_config)]

\* get_decision_criteria(review_rule): None, or the dumped decision criteria.
get_decision_criteria(review_rule) ==
    IF review_rule \notin DOMAIN structured_rules THEN None
    ELSE DumpFields(structured_rules[review_rule].decision_criteria)

\* get_rule(review_rule): self.structured_rules.get(review_rule)
get_rule(review_rule) ==
    IF review_rule \in DOMAIN structured_rules
    THEN structured_rules[review_rule] ELSE None

\* list_rules(): the keys of the registry; their order in the list is left out.
list_rules == DOMAIN structured_rules

----------------------------------------------------------------------------
(* The calls *)

NoCall == [op |-> "none"]
NoMemo == [set |-> FALSE]

\* The caller holds no list of the last call.
NoCaller == [holds |-> "nothing"]

\* agents = []: a list object of its own, no table refers to it.
NewList == [shared_with |-> "nothing"]

\* The list a call returned, as the caller holds it, and which object it is.
ResultHeld(result, object) ==
    IF result.ok
    THEN [holds |-> "result", value |-> result.value, object |-> object]
    ELSE NoCaller

\* The argument the caller passed, as it is once the call is over.
ArgumentHeld(name, value) == [holds |-> name, value |-> value]

\* Lists of at most n rule names: any order, repeats allowed.
RuleLists(n) == UNION {[1..k -> RuleNames] : k \in 0..n}

\* The history kept of get_required_agents: any one call may be the remembered
\* one; `between` tells that a call other than the remembered one was made since.
MemoAfter(op, keep) ==
    IF memo.set
    THEN [memo EXCEPT !.between = @ \/ op # "get_required_agents" \/ call' # memo.call]
    ELSE IF keep /\ op = "get_required_agents"
         THEN [set |-> TRUE, call |-> call', result |-> ret', between |-> FALSE]
         ELSE memo

Init ==
    /\ ROUTING_MAP = ROUTING_MAP_initial
    /\ PREREQUISITES = PREREQUISITES_initial
    /\ RISK_LEVELS = RISK_LEVELS_initial
    /\ call = NoCall
    /\ ret = Return("None")
    /\ memo = NoMemo
    /\ rules_dict = EmptyDict
    /\ rules_file = MissingFile
    /\ structured_rules = EmptyDict
    /\ vector_store = FALSE
    /\ llm = FALSE
    /\ generating = NotGenerating
    /\ round_trip = NoRoundTrip
    /\ reader = NoReader
    /\ last_load = NotLoaded
    /\ caller = NoCaller
    /\ decision = None
    /\ aggregator = NoAggregator
    /\ findings_log = NoFindings

\* Mutant: agents = cls.PREREQUISITES[review_rule]; agents.extend(primary): the
\* list of the table itself is extended and returned.
Call_get_required_agents_ExtendsTable(remember) ==
    \E review_rule \in RuleNames, include_prerequisites \in BOOLEAN, keep \in remember :
        LET shared == /\ review_rule \in DOMAIN ROUTING_MAP
                      /\ include_prerequisites
                      /\ review_rule \in DOMAIN PREREQUISITES
            extended == PREREQUISITES[review_rule] \o ROUTING_MAP[review_rule]
        IN  /\ call' = [op |-> "get_required_agents", review_rule |-> review_rule,
                        include_prerequisites |-> include_prerequisites]
            /\ ret' = IF shared THEN Return(extended)
                      ELSE get_required_agents(review_rule, include_prerequisites)
            /\ PREREQUISITES' = IF shared
                                THEN [PREREQUISITES EXCEPT ![review_rule] = extended]
                                ELSE PREREQUISITES
            /\ memo' = MemoAfter("get_required_agents", keep)
            /\ caller' = ResultHeld(ret', NewList)
            /\ UNCHANGED <<ROUTING_MAP, RISK_LEVELS>>
            /\ UNCHANGED registry_vars

\* Mutant: without prerequisites to add, return cls.ROUTING_MAP[review_rule]:
\* the caller is handed the list of the table itself.
Call_get_required_agents_ReturnsTableList(remember) ==
    \E review_rule \in RuleNames, include_prerequisites \in BOOLEAN, keep \in remember :
        LET shared == /\ review_rule \in DOMAIN ROUTING_MAP
                      /\ ~(include_prerequisites /\ review_rule \in DOMAIN PREREQUISITES)
        IN  /\ call' = [op |-> "get_required_agents", review_rule |-> review_rule,
                        include_prerequisites |-> include_prerequisites]
            /\ ret' = get_required_agents(review_rule, include_prerequisites)
            /\ memo' = MemoAfter("get_required_agents", keep)
            /\ caller' = ResultHeld(ret',
                                    IF shared
                                    THEN [shared_with |-> "ROUTING_MAP",
                                          review_rule |-> review_rule]
                                    ELSE NewList)
            /\ UNCHANGED <<ROUTING_MAP, PREREQUISITES, RISK_LEVELS>>
            /\ UNCHANGED registry_vars

\* `remember` is {FALSE}, or BOOLEAN where the call may become the remembered one.
Call_get_required_agents(remember) ==
    \E review_rule \in RuleNames, include_prerequisites \in BOOLEAN, keep \in remember :
        /\ call' = [op |-> "get_required_agents", review_rule |-> review_rule,
                    include_prerequisites |-> include_prerequisites]
        /\ ret' = get_required_agents(review_rule, include_prerequisites)
        /\ memo' = MemoAfter("get_required_agents", keep)
        /\ caller' = ResultHeld(ret', NewList)
        /\ UNCHANGED <<ROUTING_MAP, PREREQUISITES, RISK_LEVELS>>
        /\ UNCHANGED registry_vars

Call_get_agent_names ==
    \E review_rule \in RuleNames, include_prerequisites \in BOOLEAN :
        /\ call' = [op |-> "get_agent_names", review_rule |-> review_rule,
                    include_prerequisites |-> include_prerequisites]
        /\ ret' = get_agent_names(review_rule, include_prerequisites)
        /\ memo' = MemoAfter("get_agent_names", FALSE)
        /\ caller' = NoCaller
        /\ UNCHANGED <<ROUTING_MAP, PREREQUISITES, RISK_LEVELS>>
        /\ UNCHANGED registry_vars

Call_get_risk_level ==
    \E review_rule \in RuleNames :
        /\ call' = [op |-> "get_risk_level", review_rule |-> review_rule]
        /\ ret' = Return(get_risk_level(review_rule))
        /\ memo' = MemoAfter("get_risk_level", FALSE)
        /\ caller' = NoCaller
        /\ UNCHANGED <<ROUTING_MAP, PREREQUISITES, RISK_LEVELS>>
        /\ UNCHANGED registry_vars

Call_is_critical_rule ==
    \E review_rule \in RuleNames :
        /\ call' = [op |-> "is_critical_rule", review_rule |-> review_rule]
        /\ ret' = Return(is_critical_rule(review_rule))
        /\ memo' = MemoAfter("is_critical_rule", FALSE)
        /\ caller' = NoCaller
        /\ UNCHANGED <<ROUTING_MAP, PREREQUISITES, RISK_LEVELS>>
        /\ UNCHANGED registry_vars

Call_get_agent_execution_plan(longest) ==
    \E review_rules \in RuleLists(longest) :
        /\ call' = [op |-> "get_agent_execution_plan", review_rules |-> review_rules]
        /\ ret' = get_agent_execution_plan(review_rules)
        /\ memo' = MemoAfter("get_agent_execution_plan", FALSE)
        /\ caller' = ArgumentHeld("review_rules", review_rules)
        /\ UNCHANGED <<ROUTING_MAP, PREREQUISITES, RISK_LEVELS>>
        /\ UNCHANGED registry_vars

Next ==
    \/ Call_get_required_agents({FALSE})
    \/ Call_get_agent_names
    \/ Call_get_risk_level
    \/ Call_is_critical_rule
    \/ Call_get_agent_execution_plan(MaxRules)

Spec == Init /\ [][Next]_vars

\* The same calls, with one get_required_agents call and its result remembered.
HistoryNext ==
    \/ Call_get_required_agents(BOOLEAN)
    \/ Call_get_agent_names
    \/ Call_get_risk_level
    \/ Call_is_critical_rule
    \/ Call_get_agent_execution_plan(MaxRulesBetween)

SpecHistory == Init /\ [][HistoryNext]_vars

----------------------------------------------------------------------------
(* validate_structured_rules on a dict loaded from structured_rules.json *)

InitValidate ==
    /\ ROUTING_MAP = ROUTING_MAP_initial
    /\ PREREQUISITES = PREREQUISITES_initial
    /\ RISK_LEVELS = RISK_LEVELS_initial
    /\ call = NoCall
    /\ ret = Return("None")
    /\ memo = NoMemo
    /\ rules_dict \in RuleDicts(MaxValidated)
    /\ rules_file = MissingFile
    /\ structured_rules = EmptyDict
    /\ vector_store = FALSE
    /\ llm = FALSE
    /\ generating = NotGenerating
    /\ round_trip = NoRoundTrip
    /\ reader = NoReader
    /\ last_load = NotLoaded
    /\ caller = NoCaller
    /\ decision = None
    /\ aggregator = NoAggregator
    /\ findings_log = NoFindings

Call_validate_structured_rules ==
    /\ call' = [op |-> "validate_structured_rules"]
    /\ ret' = validate_structured_rules(rules_dict)
    /\ UNCHANGED <<ROUTING_MAP, PREREQUISITES, RISK_LEVELS, memo, caller>>
    /\ UNCHANGED registry_vars

ValidateNext ==
    \/ Call_validate_structured_rules

SpecValidate == InitValidate /\ [][ValidateNext]_vars

----------------------------------------------------------------------------
(* Every call of the router and of the planner, and a caller that changes the
   list it was returned *)

Call_get_routing_summary ==
    /\ call' = [op |-> "get_routing_summary"]
    /\ ret' = Return(get_routing_summary)
    /\ memo' = MemoAfter("get_routing_summary", FALSE)
    /\ caller' = NoCaller
    /\ UNCHANGED <<ROUTING_MAP, PREREQUISITES, RISK_LEVELS>>
    /\ UNCHANGED registry_vars

\* validate_structured_rules(structured_rules) on a dict of the caller's; the
\* function only reads it.
Call_validate_structured_rules_of(dicts) ==
    \E given \in dicts :
        /\ call' = [op |-> "validate_structured_rules", structured_rules |-> given]
        /\ ret' = validate_structured_rules(given)
        /\ memo' = MemoAfter("validate_structured_rules", FALSE)
        /\ caller' = ArgumentHeld("structured_rules", given)
        /\ UNCHANGED <<ROUTING_MAP, PREREQUISITES, RISK_LEVELS>>
        /\ UNCHANGED registry_vars

\* The caller appends an agent to the list get_required_agents returned.  The
\* list is the caller's own object: a table changes only if it shares the list.
Caller_appends_to_result ==
    /\ call.op = "get_required_agents"
    /\ caller.holds = "result"
    /\ \E agent \in DOMAIN AgentType :
          /\ call' = [op |-> "list.append", agent |-> agent]
          /\ ret' = Return("None")
          /\ caller' = [caller EXCEPT !.value = Append(@, agent)]
          /\ ROUTING_MAP' =
                IF caller.object.shared_with = "ROUTING_MAP"
                THEN [ROUTING_MAP EXCEPT ![caller.object.review_rule] = Append(@, agent)]
                ELSE ROUTING_MAP
    /\ memo' = MemoAfter("list.append", FALSE)
    /\ UNCHANGED <<PREREQUISITES, RISK_LEVELS>>
    /\ UNCHANGED registry_vars

FrameNext ==
    \/ Call_get_required_agents({FALSE})
    \/ Call_get_agent_names
    \/ Call_get_risk_level
    \/ Call_is_critical_rule
    \/ Call_get_routing_summary
    \/ Call_validate_structured_rules_of(RuleDicts(MaxFrameRules))
    \/ Call_get_agent_execution_plan(MaxRules)
    \/ Caller_appends_to_result

SpecFrame == Init /\ [][FrameNext]_vars

----------------------------------------------------------------------------
(* The executor's registry and the rules file *)

\* What the calls of the executor never touch.
router_vars ==
    <<ROUTING_MAP, PREREQUISITES, RISK_LEVELS, memo, rules_dict, caller, decision_vars>>

\* An executor that holds some registry, and a path that holds some file.
InitRegistry ==
    /\ ROUTING_MAP = ROUTING_MAP_initial
    /\ PREREQUISITES = PREREQUISITES_initial
    /\ RISK_LEVELS = RISK_LEVELS_initial
    /\ call = NoCall
    /\ ret = Return("None")
    /\ memo = NoMemo
    /\ rules_dict = EmptyDict
    /\ rules_file \in RuleFiles(MaxFileRules)
    /\ structured_rules \in Registries(MaxFileRules)
    /\ vector_store = FALSE
    /\ llm = FALSE
    /\ generating = NotGenerating
    /\ round_trip = NoRoundTrip
    /\ reader = NoReader
    /\ last_load = NotLoaded
    /\ caller = NoCaller
    /\ decision = None
    /\ aggregator = NoAggregator
    /\ findings_log = NoFindings

\* The history of a round trip: save_rules, then PolicyExecutor(), then
\* load_rules; a lookup in between does not break it off.
RoundTripAfter(op) ==
    CASE op = "save_rules" -> [phase |-> "saved", r |-> structured_rules]
      [] op = "__init__"   -> IF round_trip.phase = "saved"
                              THEN [round_trip EXCEPT !.phase = "fresh"]
                              ELSE NoRoundTrip
      [] op = "load_rules" -> IF round_trip.phase = "fresh"
                              THEN [round_trip EXCEPT !.phase = "loaded"]
                              ELSE NoRoundTrip
      [] OTHER             -> round_trip

\* PolicyExecutor(vector_store): a fresh executor takes the place of the old one.
New_PolicyExecutor(stores) ==
    \E given \in stores :
        /\ call' = [op |-> "__init__"]
        /\ ret' = Return("None")
        /\ vector_store' = given
        /\ structured_rules' = EmptyDict
        /\ llm' = FALSE
        /\ generating' = NotGenerating
        /\ round_trip' = RoundTripAfter("__init__")
        /\ reader' = NoReader
        /\ last_load' = NotLoaded
        /\ UNCHANGED rules_file
        /\ UNCHANGED router_vars

\* json.load succeeds and the schema accepts every entry of the file.
LoadSucceeds ==
    /\ json_load(rules_file).ok
    /\ \A n \in DOMAIN rules_file.value : StructuredRule(rules_file.value[n]).ok

Call_load_rules ==
    /\ ~generating.active
    /\ call' = [op |-> "load_rules"]
    /\ structured_rules' = load_rules.structured_rules
    /\ ret' = load_rules.ret
    /\ round_trip' = RoundTripAfter("load_rules")
    /\ last_load' = IF LoadSucceeds
                    THEN [set |-> TRUE, registry |-> structured_rules']
                    ELSE last_load
    /\ UNCHANGED <<rules_file, vector_store, llm, generating, reader>>
    /\ UNCHANGED router_vars

Call_save_rules ==
    /\ ~generating.active
    /\ call' = [op |-> "save_rules"]
    /\ rules_file' = save_rules
    /\ ret' = Return("None")
    /\ round_trip' = RoundTripAfter("save_rules")
    /\ UNCHANGED <<structured_rules, vector_store, llm, generating, reader,
                   last_load>>
    /\ UNCHANGED router_vars

\* A lookup made while generate_structured_rules is under way is remembered
\* with the registry it was answered from and the registry the run began with.
ReaderAfter ==
    IF generating.active
    THEN [during |-> TRUE, before |-> generating.before, saw |-> structured_rules]
    ELSE reader

Call_get_rule ==
    \E review_rule \in PolicyRuleNames :
        /\ call' = [op |-> "get_rule", review_rule |-> review_rule]
        /\ ret' = Return(get_rule(review_rule))
        /\ reader' = ReaderAfter
        /\ round_trip' = RoundTripAfter("get_rule")
        /\ UNCHANGED <<rules_file, structured_rules, vector_store, llm, generating,
                       last_load>>
        /\ UNCHANGED router_vars

Call_get_workflow_config ==
    \E review_rule \in PolicyRuleNames :
        /\ call' = [op |-> "get_workflow_config", review_rule |-> review_rule]
        /\ ret' = Return(get_workflow_config(review_rule))
        /\ reader' = ReaderAfter
        /\ round_trip' = RoundTripAfter("get_workflow_config")
        /\ UNCHANGED <<rules_file, structured_rules, vector_store, llm, generating,
                       last_load>>
        /\ UNCHANGED router_vars

Call_get_decision_criteria ==
    \E review_rule \in PolicyRuleNames :
        /\ call' = [op |-> "get_decision_criteria", review_rule |-> review_rule]
        /\ ret' = Return(get_decision_criteria(review_rule))
        /\ reader' = ReaderAfter
        /\ round_trip' = RoundTripAfter("get_decision_criteria")
        /\ UNCHANGED <<rules_file, structured_rules, vector_store, llm, generating,
                       last_load>>
        /\ UNCHANGED router_vars

Call_list_rules ==
    /\ call' = [op |-> "list_rules"]
    /\ ret' = Return(list_rules)
    /\ reader' = ReaderAfter
    /\ round_trip' = RoundTripAfter("list_rules")
    /\ UNCHANGED <<rules_file, structured_rules, vector_store, llm, generating,
                   last_load>>
    /\ UNCHANGED router_vars

----------------------------------------------------------------------------
(* Rule generation, one policy at a time, and the lookups made meanwhile *)

\* initialize(vector_store): the store is kept, then the LLM client is built;
\* building it may raise, which leaves self.llm as it was.
Call_initialize ==
    \E llm_built \in BOOLEAN :
        /\ ~generating.active
        /\ call' = [op |-> "initialize"]
        /\ vector_store' = TRUE
        /\ llm' = (llm \/ llm_built)
        /\ ret' = IF llm_built THEN Return("None") ELSE [ok |-> FALSE, error |-> "Exception"]
        /\ UNCHANGED <<rules_file, structured_rules, generating, round_trip, reader,
                       last_load>>
        /\ UNCHANGED router_vars

\* generate_structured_rules(), or refresh_rules() which only calls it, up to
\* the first policy: the two guards and policy_names.
Begin_generate_structured_rules ==
    \E op \in {"generate_structured_rules", "refresh_rules"} :
        /\ ~generating.active
        /\ call' = [op |-> op]
        /\ IF ~vector_store
           THEN /\ ret' = RaiseRuntimeError("Vector store not initialized")
                /\ UNCHANGED <<generating, reader>>
           ELSE IF ~llm
           THEN /\ ret' = RaiseRuntimeError("LLM not initialized")
                /\ UNCHANGED <<generating, reader>>
           ELSE /\ ret' = Running
                /\ generating' = [active          |-> TRUE,
                                  op              |-> op,
                                  policy_names    |-> list_all_policies,
                                  generated_rules |-> EmptyDict,
                                  before          |-> structured_rules]
                /\ reader' = NoReader
        /\ UNCHANGED <<rules_file, structured_rules, vector_store, llm, round_trip,
                       last_load>>
        /\ UNCHANGED router_vars

\* One turn of the loop over policy_names: the policy text is fetched, the LLM
\* asked, and a rule that was built is stored in self.structured_rules at once.
Step_generate_structured_rules ==
    /\ generating.active
    /\ generating.policy_names # <<>>
    /\ \E policy_text_found \in BOOLEAN, content \in LlmResponses :
          LET review_rule == Head(generating.policy_names)
              structured_rule == parse_policy_to_rule(content)
              stored == policy_text_found /\ structured_rule # None
          IN  /\ structured_rules' =
                    IF stored THEN Put(structured_rules, review_rule, structured_rule)
                    ELSE structured_rules
              /\ generating' =
                    [generating EXCEPT
                        !.policy_names = Tail(@),
                        !.generated_rules =
                            IF stored THEN Put(@, review_rule, model_dump(structured_rule))
                            ELSE @]
              /\ last_load' = IF stored THEN NotLoaded ELSE last_load
    /\ UNCHANGED <<call, ret, rules_file, vector_store, llm, round_trip, reader>>
    /\ UNCHANGED router_vars

\* The loop is over: generated_rules is returned.
Return_generate_structured_rules ==
    /\ generating.active
    /\ generating.policy_names = <<>>
    /\ call' = [op |-> generating.op]
    /\ ret' = Return(generating.generated_rules)
    /\ generating' = NotGenerating
    /\ UNCHANGED <<rules_file, structured_rules, vector_store, llm, round_trip, reader,
                   last_load>>
    /\ UNCHANGED router_vars

RefreshNext ==
    \/ New_PolicyExecutor(BOOLEAN)
    \/ Call_initialize
    \/ Begin_generate_structured_rules
    \/ Step_generate_structured_rules
    \/ Return_generate_structured_rules
    \/ Call_get_rule
    \/ Call_list_rules

SpecRefresh == Init /\ [][RefreshNext]_vars

RegistryNext ==
    \/ New_PolicyExecutor({FALSE})
    \/ Call_load_rules
    \/ Call_save_rules
    \/ Call_get_rule
    \/ Call_get_workflow_config
    \/ Call_get_decision_criteria
    \/ Call_list_rules

SpecRegistry == InitRegistry /\ [][RegistryNext]_vars

----------------------------------------------------------------------------
(* UnderwritingDecision and its findings *)

RiskLevel == {"LOW", "MEDIUM", "HIGH", "CRITICAL"}
DecisionStatus == {"APPROVED", "DENIED", "PENDING_REVIEW"}
FindingStatus == {"PASS", "FAIL", "REVIEW"}

\* An AgentFinding; confidence is in hundredths (0.95 is 95).
AgentFinding(check_type, status, risk_level, confidence) ==
    [check_type |-> check_type, status |-> status, risk_level |-> risk_level,
     confidence |-> confidence]

\* The findings the agents hand in.
SomeFindings ==
    {AgentFinding("ofac_check", "PASS", "LOW", 100),
     AgentFinding("ofac_check", "FAIL", "LOW", 100),
     AgentFinding("income_check", "PASS", "LOW", 100),
     AgentFinding("income_check", "PASS", "LOW", 50),
     AgentFinding("income_check", "PASS", "CRITICAL", 100),
     AgentFinding("income_check", "FAIL", "CRITICAL", 100),
     AgentFinding("income_check", "FAIL", "HIGH", 100),
     AgentFinding("income_check", "REVIEW", "MEDIUM", 100)}

\* findings=... of the constructor: left out, or one finding given.
InitialFindingLists == {<<>>, <<AgentFinding("income_check", "PASS", "LOW", 100)>>}

\* UnderwritingDecision(decision=..., findings=...): requires_manual_review
\* defaults to False.
UnderwritingDecision(status, findings) ==
    [cls |-> "UnderwritingDecision", decision |-> status, findings |-> findings,
     requires_manual_review |-> FALSE]

\* Mutant: self.findings.insert(0, finding)
add_finding_Prepends(self, finding) ==
    [self EXCEPT !.findings = <<finding>> \o @]

\* self.findings.append(finding)
add_finding(self, finding) ==
    [self EXCEPT !.findings = Append(@, finding)]

\* any(f.status == FAIL and f.risk_level == CRITICAL for f in findings)
RECURSIVE AnyCriticalFailure(_)
AnyCriticalFailure(findings) ==
    IF findings = <<>> THEN FALSE
    ELSE \/ Head(findings).status = "FAIL" /\ Head(findings).risk_level = "CRITICAL"
         \/ AnyCriticalFailure(Tail(findings))

has_critical_failures(self) == AnyCriticalFailure(self.findings)

\* all(f.status == PASS for f in findings)
RECURSIVE AllPass(_)
AllPass(findings) ==
    IF findings = <<>> THEN TRUE
    ELSE Head(findings).status = "PASS" /\ AllPass(Tail(findings))

all_checks_passed(self) == AllPass(self.findings)

\* The decision criteria of the rules applied to an application: the
\* zero-tolerance check names and the minimum confidence, in hundredths.
AppliedCriteria ==
    {{[zero_tolerance_checks |-> <<>>, min_confidence |-> 60]},
     {[zero_tolerance_checks |-> <<>>, min_confidence |-> 60],
      [zero_tolerance_checks |-> <<"ofac_check">>, min_confidence |-> 80]}}

\* Some finding has failed a check that a rule's criteria list as zero-tolerance.
ZeroToleranceFailure(findings, criteria) ==
    \E i \in 1..Len(findings), c \in criteria :
        /\ findings[i].status = "FAIL"
        /\ findings[i].check_type \in Range(c.zero_tolerance_checks)

\* The aggregate confidence: the least confidence of the findings.
RECURSIVE MinConfidence(_)
MinConfidence(findings) ==
    IF findings = <<>> THEN 100
    ELSE LET rest == MinConfidence(Tail(findings))
         IN  IF Head(findings).confidence < rest THEN Head(findings).confidence ELSE rest

\* The finalize algorithm, steps 1 to 5.
Decide(findings, criteria) ==
    LET threshold == CHOOSE m \in {c.min_confidence : c \in criteria} :
                        \A c \in criteria : m <= c.min_confidence
    IN  IF ZeroToleranceFailure(findings, criteria)
        THEN [decision |-> "DENIED", manual_review |-> FALSE]
        ELSE IF AnyCriticalFailure(findings)
        THEN [decision |-> "DENIED", manual_review |-> FALSE]
        ELSE IF MinConfidence(findings) < threshold
        THEN [decision |-> "PENDING_REVIEW", manual_review |-> TRUE]
        ELSE IF AllPass(findings)
        THEN [decision |-> "APPROVED", manual_review |-> FALSE]
        ELSE [decision |-> "PENDING_REVIEW", manual_review |-> TRUE]

\* What the calls on a decision never touch.
outside_decision ==
    <<ROUTING_MAP, PREREQUISITES, RISK_LEVELS, memo, caller, rules_dict, rules_file,
      structured_rules, vector_store, llm, generating, round_trip, reader, last_load>>

\* The decision of an application is created and its evaluation starts.
New_UnderwritingDecision ==
    \E status \in DecisionStatus, findings \in InitialFindingLists,
       criteria \in AppliedCriteria :
        /\ call' = [op |-> "UnderwritingDecision", decision |-> status]
        /\ ret' = Return("None")
        /\ decision' = UnderwritingDecision(status, findings)
        /\ aggregator' = [state |-> "COLLECTING", criteria |-> criteria]
        /\ findings_log' = [initial |-> findings, added |-> <<>>]
        /\ UNCHANGED outside_decision

\* decision.add_finding(finding): nothing is asked of the decision first.
Call_add_finding ==
    /\ decision # None
    /\ Len(findings_log.added) < MaxFindings
    /\ \E finding \in SomeFindings :
          /\ call' = [op |-> "add_finding", finding |-> finding]
          /\ ret' = Return("None")
          /\ decision' = add_finding(decision, finding)
          /\ findings_log' = [findings_log EXCEPT !.added = Append(@, finding)]
    /\ UNCHANGED aggregator
    /\ UNCHANGED outside_decision

Call_has_critical_failures ==
    /\ decision # None
    /\ call' = [op |-> "has_critical_failures"]
    /\ ret' = Return(has_critical_failures(decision))
    /\ UNCHANGED decision_vars
    /\ UNCHANGED outside_decision

Call_all_checks_passed ==
    /\ decision # None
    /\ call' = [op |-> "all_checks_passed"]
    /\ ret' = Return(all_checks_passed(decision))
    /\ UNCHANGED decision_vars
    /\ UNCHANGED outside_decision

\* Finalize(): the first call decides and moves to FINALIZED; a later call
\* returns the same decision and does not look at the findings again.
Finalize ==
    /\ decision # None
    /\ call' = [op |-> "Finalize"]
    /\ IF aggregator.state = "FINALIZED"
       THEN UNCHANGED <<decision, aggregator>>
       ELSE LET decided == Decide(decision.findings, aggregator.criteria)
            IN  /\ decision' =
                      [decision EXCEPT !.decision = decided.decision,
                                       !.requires_manual_review = decided.manual_review]
                /\ aggregator' = [aggregator EXCEPT !.state = "FINALIZED"]
    /\ ret' = Return(decision'.decision)
    /\ UNCHANGED findings_log
    /\ UNCHANGED outside_decision

DecisionNext ==
    \/ New_UnderwritingDecision
    \/ Call_add_finding
    \/ Call_has_critical_failures
    \/ Call_all_checks_passed
    \/ Finalize

SpecDecision == Init /\ [][DecisionNext]_vars

----------------------------------------------------------------------------
(* Vocabulary of the properties *)

IsPlanCall == call.op = "get_agent_execution_plan"
IsAgentsCall == call.op = "get_required_agents"

\* Every name of the list is one of the four review rules.
AllKnown(rules) == Range(rules) \subseteq Range(KnownRules)

NoDuplicates(s) == \A i, j \in 1..Len(s) : s[i] = s[j] => i = j

Count(s, x) == Cardinality({i \in 1..Len(s) : s[i] = x})

IsPrefix(p, s) == Len(p) <= Len(s) /\ SubSeq(s, 1, Len(p)) = p

\* x occurs in s before y does.
Precedes(s, x, y) ==
    \E i, j \in 1..Len(s) : i < j /\ s[i] = x /\ s[j] = y

\* s without every element that occurred earlier in it.
FirstOccurrences(s) ==
    LET firsts == {i \in 1..Len(s) : \A j \in 1..(i - 1) : s[j] # s[i]}
    IN  [k \in 1..Cardinality(firsts) |->
            s[CHOOSE i \in firsts : Cardinality({j \in firsts : j < i}) = k - 1]]

\* CRITICAL before HIGH before MEDIUM.
LevelRank(level) ==
    CASE level = "CRITICAL" -> 1
      [] level = "HIGH"     -> 2
      [] level = "MEDIUM"   -> 3

\* The rules of s that have the risk level, in their order in s.
OfLevel(s, level) == SelectSeq(s, LAMBDA r : get_risk_level(r) = level)

\* The agent names the rules ask for, rule after rule, prerequisites included.
RECURSIVE NamesInTurn(_)
NamesInTurn(rules) ==
    IF rules = <<>> THEN <<>>
    ELSE get_agent_names(Head(rules), TRUE).value \o NamesInTurn(Tail(rules))

----------------------------------------------------------------------------
(* Properties of the execution plan *)

\* C1: for every list of valid rule names the plan's execution_order holds no
\* agent twice, and total_agents is its length and the number of distinct agents
\* that get_required_agents(rule, True) yields over the rules of the list.
C1_PlanHasEachAgentOnce ==
    (IsPlanCall /\ AllKnown(call.review_rules)) =>
        /\ ret.ok
        /\ NoDuplicates(ret.value.execution_order)
        /\ ret.value.total_agents = Len(ret.value.execution_order)
        /\ ret.value.total_agents =
              Cardinality(UNION {Range(get_required_agents(r, TRUE).value) :
                                    r \in Range(call.review_rules)})

\* C1: IDENTITY_VERIFICATION + FRAUD_CHECK was planned: identity once, three agents.
C1_Witness ==
    /\ IsPlanCall
    /\ call.review_rules = <<"IDENTITY_VERIFICATION", "FRAUD_CHECK">>
    /\ ret.ok
    /\ Count(ret.value.execution_order, "identity") = 1
    /\ ret.value.total_agents = 3

\* C2: in every plan for valid rule names, if fraud is in execution_order then
\* identity and income are both in it, each before fraud.
C2_PrerequisitesPrecedeFraud ==
    (IsPlanCall /\ AllKnown(call.review_rules) /\ ret.ok
        /\ "fraud" \in Range(ret.value.execution_order)) =>
        /\ Precedes(ret.value.execution_order, "identity", "fraud")
        /\ Precedes(ret.value.execution_order, "income", "fraud")

\* C2: a plan with fraud in it whose input names the fraud-bearing rule last,
\* after two other active rules.
C2_Witness ==
    /\ IsPlanCall
    /\ call.review_rules =
          <<"INCOME_VALIDATION", "IDENTITY_VERIFICATION", "HIGH_RISK_PROFILE">>
    /\ ret.ok
    /\ "fraud" \in Range(ret.value.execution_order)

\* C3: rules_by_priority is a permutation of the input with every CRITICAL rule
\* before every HIGH rule before every MEDIUM rule, and the rules of one level
\* are in their input order (stable).
C3_RulesSortedStably ==
    (IsPlanCall /\ AllKnown(call.review_rules) /\ ret.ok) =>
        LET sorted_rules == ret.value.rules_by_priority
        IN  /\ Len(sorted_rules) = Len(call.review_rules)
            /\ \A i, j \in 1..Len(sorted_rules) :
                  i < j => LevelRank(get_risk_level(sorted_rules[i]))
                              <= LevelRank(get_risk_level(sorted_rules[j]))
            /\ \A level \in {"CRITICAL", "HIGH", "MEDIUM"} :
                  OfLevel(sorted_rules, level) = OfLevel(call.review_rules, level)

\* C3: two HIGH rules given in the order HIGH_RISK_PROFILE, IDENTITY_VERIFICATION
\* behind a MEDIUM rule: the sort moved the MEDIUM rule and kept the two in order.
C3_Witness ==
    /\ IsPlanCall
    /\ call.review_rules =
          <<"INCOME_VALIDATION", "HIGH_RISK_PROFILE", "IDENTITY_VERIFICATION">>
    /\ ret.ok
    /\ ret.value.rules_by_priority =
          <<"HIGH_RISK_PROFILE", "IDENTITY_VERIFICATION", "INCOME_VALIDATION">>

\* C4: execution_order is the first-seen-wins concatenation of the agent lists
\* (prerequisites included) of the rules in priority-sorted order; the order
\* merged from any leading part of the sorted rules, the first rule's own list
\* among them, is a prefix of it.
C4_FirstSeenWinsMerge ==
    (IsPlanCall /\ AllKnown(call.review_rules) /\ ret.ok) =>
        LET sorted_rules == ret.value.rules_by_priority
        IN  /\ ret.value.execution_order = FirstOccurrences(NamesInTurn(sorted_rules))
            /\ \A k \in 1..Len(sorted_rules) :
                  IsPrefix(FirstOccurrences(NamesInTurn(SubSeq(sorted_rules, 1, k))),
                           ret.value.execution_order)
            /\ sorted_rules # <<>> =>
                  IsPrefix(get_agent_names(sorted_rules[1], TRUE).value,
                           ret.value.execution_order)

\* C4: a later rule (HIGH_RISK_PROFILE) asked again for an agent the first rule
\* had placed, and added two more behind it.
C4_Witness ==
    /\ IsPlanCall
    /\ call.review_rules = <<"IDENTITY_VERIFICATION", "HIGH_RISK_PROFILE">>
    /\ ret.ok
    /\ ret.value.execution_order = <<"identity", "income", "fraud">>
    /\ ret.value.rule_details[2].agents = <<"identity", "income", "fraud">>

\* C5: the plan for [INCOME_VALIDATION, FRAUD_CHECK] has execution_order
\* [identity, income, fraud] and total_agents 3.
C5_IncomeThenFraudPlan ==
    (IsPlanCall /\ call.review_rules = <<"INCOME_VALIDATION", "FRAUD_CHECK">>) =>
        /\ ret.ok
        /\ ret.value.execution_order = <<"identity", "income", "fraud">>
        /\ ret.value.total_agents = 3
        /\ ret.value.rules_by_priority = <<"FRAUD_CHECK", "INCOME_VALIDATION">>

\* C5: that plan was made.
C5_Witness ==
    /\ IsPlanCall
    /\ call.review_rules = <<"INCOME_VALIDATION", "FRAUD_CHECK">>
    /\ ret.ok
    /\ Len(ret.value.rule_details) = 2

----------------------------------------------------------------------------
(* Properties of the router *)

\* C6: for a valid rule name and either flag, get_required_agents returns a
\* list without duplicates, and the same list as an earlier call with the same
\* arguments returned, whatever was called in between.
C6_AgentsUniqueAndDeterministic ==
    (IsAgentsCall /\ call.review_rule \in Range(KnownRules)) =>
        /\ ret.ok
        /\ NoDuplicates(ret.value)
        /\ (memo.set /\ memo.call = call) => ret = memo.result

\* C6: the call repeats a remembered one after other calls were made.
C6_Witness ==
    /\ IsAgentsCall
    /\ call.review_rule = "FRAUD_CHECK"
    /\ call.include_prerequisites
    /\ memo.set /\ memo.call = call /\ memo.between
    /\ ret = memo.result

\* C7: with prerequisites, get_required_agents is the declared prerequisites
\* followed by the declared primary agents without what was already emitted;
\* without prerequisites it is the declared primary agents.
C7_PrerequisitesThenPrimary ==
    (IsAgentsCall /\ call.review_rule \in Range(KnownRules)) =>
        LET rule == call.review_rule
            primary == ROUTING_MAP_initial[rule]
            prerequisites ==
                IF rule \in DOMAIN PREREQUISITES_initial
                THEN PREREQUISITES_initial[rule] ELSE <<>>
        IN  /\ ret.ok
            /\ call.include_prerequisites =>
                  ret.value = FirstOccurrences(prerequisites \o primary)
            /\ ~call.include_prerequisites => ret.value = primary

\* C7: the rule with declared prerequisites was asked for with them.
C7_Witness ==
    /\ IsAgentsCall
    /\ call.review_rule = "FRAUD_CHECK"
    /\ call.include_prerequisites
    /\ ret.ok
    /\ Len(ret.value) = Len(PREREQUISITES_initial["FRAUD_CHECK"])
                          + Len(ROUTING_MAP_initial["FRAUD_CHECK"])

\* C8: get_required_agents("FRAUD_CHECK", True) is [IDENTITY, INCOME, FRAUD] and
\* get_required_agents("FRAUD_CHECK", False) is [FRAUD].
C8_FraudCheckAgents ==
    (IsAgentsCall /\ call.review_rule = "FRAUD_CHECK") =>
        /\ ret.ok
        /\ call.include_prerequisites => ret.value = <<"IDENTITY", "INCOME", "FRAUD">>
        /\ ~call.include_prerequisites => ret.value = <<"FRAUD">>

\* C8: FRAUD_CHECK was asked for without prerequisites.
C8_Witness ==
    /\ IsAgentsCall
    /\ call.review_rule = "FRAUD_CHECK"
    /\ ~call.include_prerequisites
    /\ ret.ok
    /\ Len(ret.value) = 1

\* C9: get_required_agents("HIGH_RISK_PROFILE", True) has length 3 and holds
\* each of identity, income and fraud exactly once.
C9_HighRiskProfileAllAgents ==
    (IsAgentsCall /\ call.review_rule = "HIGH_RISK_PROFILE"
        /\ call.include_prerequisites) =>
        /\ ret.ok
        /\ Len(ret.value) = 3
        /\ \A kind \in {"identity", "income", "fraud"} :
              Count(AgentValues(ret.value), kind) = 1

\* C9: HIGH_RISK_PROFILE was asked for with prerequisites.
C9_Witness ==
    /\ IsAgentsCall
    /\ call.review_rule = "HIGH_RISK_PROFILE"
    /\ call.include_prerequisites
    /\ ret.ok
    /\ "FRAUD" \in Range(ret.value)

\* C10: get_required_agents with a name outside the four review rules returns
\* no list: it raises an error that names the valid rules, for either flag.
C10_UnknownRuleRaises ==
    (IsAgentsCall /\ call.review_rule \notin Range(KnownRules)) =>
        /\ ~ret.ok
        /\ ret.error = "ValueError"
        /\ ret.unknown_rule = call.review_rule
        /\ Range(ret.valid_rules) =
              {"IDENTITY_VERIFICATION", "INCOME_VALIDATION", "FRAUD_CHECK",
               "HIGH_RISK_PROFILE"}

\* C10: the unknown name was passed with prerequisites switched off.
C10_Witness ==
    /\ IsAgentsCall
    /\ call.review_rule = "ADDRESS_CHECK"
    /\ ~call.include_prerequisites
    /\ ~ret.ok

----------------------------------------------------------------------------
(* Properties of unknown names and of risk levels *)

\* C11: get_risk_level and is_critical_rule, called with a name outside the
\* four review rules, raise an error as get_required_agents does; they return
\* no default.
C11_UnknownRiskLevelRaises ==
    (call.op \in {"get_risk_level", "is_critical_rule"}
        /\ call.review_rule \notin Range(KnownRules)) => ~ret.ok

\* C12: get_agent_execution_plan raises, and returns no plan, as soon as one
\* name of its input is outside the four review rules, at any position.
C12_PlanRejectsUnknownRule ==
    (IsPlanCall /\ ~AllKnown(call.review_rules)) =>
        /\ ~ret.ok
        /\ ret.error = "ValueError"
        /\ ret.unknown_rule \in Range(call.review_rules) \ Range(KnownRules)

\* C12: the unknown name stood between two known rules, one of them critical.
C12_Witness ==
    /\ IsPlanCall
    /\ call.review_rules = <<"FRAUD_CHECK", "ADDRESS_CHECK", "IDENTITY_VERIFICATION">>
    /\ ~ret.ok
    /\ ret.unknown_rule = "ADDRESS_CHECK"

\* C13: is_critical_rule(rule) is get_risk_level(rule) == "CRITICAL"; the risk
\* levels are IDENTITY_VERIFICATION HIGH, INCOME_VALIDATION MEDIUM, FRAUD_CHECK
\* CRITICAL, HIGH_RISK_PROFILE HIGH, so FRAUD_CHECK alone is critical.
C13_CriticalIsFraudCheckOnly ==
    /\ call.op = "is_critical_rule" =>
          /\ ret.ok
          /\ ret.value = (get_risk_level(call.review_rule) = "CRITICAL")
          /\ ret.value = (call.review_rule = "FRAUD_CHECK")
    /\ (call.op = "get_risk_level" /\ call.review_rule \in Range(KnownRules)) =>
          ret = Return([IDENTITY_VERIFICATION |-> "HIGH",
                        INCOME_VALIDATION     |-> "MEDIUM",
                        FRAUD_CHECK           |-> "CRITICAL",
                        HIGH_RISK_PROFILE     |-> "HIGH"][call.review_rule])

\* C13: a HIGH rule was asked about and is not critical.
C13_Witness ==
    /\ call.op = "is_critical_rule"
    /\ call.review_rule = "HIGH_RISK_PROFILE"
    /\ get_risk_level(call.review_rule) = "HIGH"
    /\ ret = Return(FALSE)

\* C14: has_critical_rules of a plan is true exactly when a rule of the input
\* has risk level CRITICAL, that is when FRAUD_CHECK is in the input; it is
\* false for the empty input.
C14_HasCriticalIffFraudCheck ==
    (IsPlanCall /\ ret.ok) =>
        /\ ret.value.has_critical_rules =
              (\E r \in Range(call.review_rules) : get_risk_level(r) = "CRITICAL")
        /\ ret.value.has_critical_rules = ("FRAUD_CHECK" \in Range(call.review_rules))
        /\ call.review_rules = <<>> => ~ret.value.has_critical_rules

\* C14: FRAUD_CHECK came last behind two rules that are not critical.
C14_Witness ==
    /\ IsPlanCall
    /\ call.review_rules = <<"INCOME_VALIDATION", "HIGH_RISK_PROFILE", "FRAUD_CHECK">>
    /\ ret.ok
    /\ ret.value.has_critical_rules

----------------------------------------------------------------------------
(* Properties of validate_structured_rules *)

IsValidateCall == call.op = "validate_structured_rules"

\* The rule is one of the four, and its configuration declares the primary
\* agents of the routing table, as a set, and the risk level of the risk table.
MatchesRouter(rule_name, rule_config) ==
    /\ rule_name \in Range(KnownRules)
    /\ "required_agents" \in DOMAIN rule_config
    /\ Range(rule_config.required_agents)
          = Range(AgentValues(ROUTING_MAP_initial[rule_name]))
    /\ "risk_level" \in DOMAIN rule_config
    /\ rule_config.risk_level = RISK_LEVELS_initial[rule_name]

\* C15: when the IDENTITY_VERIFICATION entry declares required_agents ["income"]
\* with the right risk level and every other entry matches the router,
\* validate_structured_rules gives IDENTITY_VERIFICATION exactly one warning and
\* every other rule none; and any recognized rule whose required_agents differ,
\* as a set, from the router's primary agents gets exactly one agent-mismatch
\* warning.
C15_OneAgentMismatchWarning ==
    IsValidateCall =>
        /\ ret.ok
        /\ ( /\ "IDENTITY_VERIFICATION" \in DOMAIN rules_dict
             /\ "required_agents" \in DOMAIN rules_dict["IDENTITY_VERIFICATION"]
             /\ rules_dict["IDENTITY_VERIFICATION"].required_agents = <<"income">>
             /\ "risk_level" \in DOMAIN rules_dict["IDENTITY_VERIFICATION"]
             /\ rules_dict["IDENTITY_VERIFICATION"].risk_level = "HIGH"
             /\ \A other \in DOMAIN rules_dict \ {"IDENTITY_VERIFICATION"} :
                   MatchesRouter(other, rules_dict[other]) )
            => /\ Len(ret.value["IDENTITY_VERIFICATION"]) = 1
               /\ ret.value["IDENTITY_VERIFICATION"][1].kind = "agent_mismatch"
               /\ \A other \in DOMAIN rules_dict \ {"IDENTITY_VERIFICATION"} :
                     ret.value[other] = <<>>
        /\ \A rule_name \in DOMAIN rules_dict \cap Range(KnownRules) :
              LET rule_config == rules_dict[rule_name]
                  warnings == ret.value[rule_name]
                  mismatches == {i \in 1..Len(warnings) :
                                    warnings[i].kind = "agent_mismatch"}
              IN  ( /\ "required_agents" \in DOMAIN rule_config
                    /\ Range(rule_config.required_agents)
                          # Range(AgentValues(ROUTING_MAP_initial[rule_name])) )
                  => /\ Cardinality(mismatches) = 1
                     /\ \A i \in mismatches :
                           /\ warnings[i].got = Range(rule_config.required_agents)
                           /\ warnings[i].expected
                                 = Range(AgentValues(ROUTING_MAP_initial[rule_name]))

\* C15: all four rules were validated, IDENTITY_VERIFICATION with ["income"],
\* FRAUD_CHECK with its primary agent alone.
C15_Witness ==
    /\ IsValidateCall
    /\ DOMAIN rules_dict = Range(KnownRules)
    /\ rules_dict["IDENTITY_VERIFICATION"] = RuleData("policy", "HIGH", <<"income">>)
    /\ \A other \in DOMAIN rules_dict \ {"IDENTITY_VERIFICATION"} :
          MatchesRouter(other, rules_dict[other])
    /\ ret.ok
    /\ ret.value["IDENTITY_VERIFICATION"] =
          <<[kind |-> "agent_mismatch", expected |-> {"identity"}, got |-> {"income"}]>>
    /\ ret.value["FRAUD_CHECK"] = <<>>

\* C16: validate_structured_rules does not raise, its result has an entry for
\* every rule of the dict, and the warning list of a recognized rule is empty
\* exactly when the rule declares the router's primary agents, as a set, and
\* declares the router's risk level.
C16_WarningsEmptyIffMatching ==
    IsValidateCall =>
        /\ ret.ok
        /\ DOMAIN ret.value = DOMAIN rules_dict
        /\ \A rule_name \in DOMAIN rules_dict \cap Range(KnownRules) :
              (ret.value[rule_name] = <<>>)
                  <=> MatchesRouter(rule_name, rules_dict[rule_name])

----------------------------------------------------------------------------
(* Properties of the registry and of the rules file *)

\* The file is a JSON dict with an entry the StructuredRule schema rejects.
HasMalformedEntry(file) ==
    /\ file.kind = "json"
    /\ \E n \in DOMAIN file.value : ~StructuredRule(file.value[n]).ok

\* C17: a load_rules call on a source with at least one malformed entry fails
\* as a whole: it returns {} and the registry that get_rule and list_rules
\* answer from is the one of before the call, so no entry of the source, the
\* well-formed ones included, has become visible.
C17_LoadIsFailClosed ==
    [][(call'.op = "load_rules" /\ HasMalformedEntry(rules_file))
          => /\ ret' = Return(EmptyDict)
             /\ structured_rules' = structured_rules]_vars

\* C17: load_rules returned {} on a file with a malformed and a well-formed
\* entry, and the executor still holds a rule under a name the file has not.
C17_Witness ==
    /\ call.op = "load_rules"
    /\ HasMalformedEntry(rules_file)
    /\ \E n \in DOMAIN rules_file.value : StructuredRule(rules_file.value[n]).ok
    /\ ret = Return(EmptyDict)
    /\ \E n \in DOMAIN structured_rules : n \notin DOMAIN rules_file.value

\* C18: save_rules, then load_rules on a fresh executor, yields a registry equal
\* to the saved one: the same rule names and equal rules, for every registry,
\* the empty one included, whatever the destination held before.
C18_LoadOfSaveIsRegistry ==
    round_trip.phase = "loaded" => structured_rules = round_trip.r

\* C19: a lookup made while refresh_rules or generate_structured_rules runs is
\* answered from the complete rule set of before the run or from the complete
\* one the run ends with, never from a registry in which some rules are
\* regenerated and others are not.
C19_LookupSeesOldOrNewRegistry ==
    (~generating.active /\ reader.during) =>
        reader.saw \in {reader.before, structured_rules}

\* The agent names are agent kinds, and none is named twice.
AdmissibleAgents(required_agents) ==
    /\ Range(required_agents) \subseteq {AgentType[k] : k \in DOMAIN AgentType}
    /\ NoDuplicates(required_agents)

\* C20: no rule that load_rules or rule generation admits to the registry has
\* a required_agents list with a name that is not identity, income or fraud,
\* or with a name twice.
C20_AdmittedAgentsAreUniqueKinds ==
    (call.op \in {"load_rules", "generate_structured_rules", "refresh_rules"}
        /\ ret.ok) =>
        \A rule_name \in DOMAIN ret.value :
            /\ rule_name \in DOMAIN structured_rules
            /\ AdmissibleAgents(ret.value[rule_name].required_agents)

----------------------------------------------------------------------------
(* Properties of the lookups and of load_rules *)

LookupsByName == {"get_rule", "get_workflow_config", "get_decision_criteria"}

\* C21: after load_rules succeeded, get_rule, get_workflow_config and
\* get_decision_criteria return something other than None exactly for the names
\* of the loaded registry, get_rule returns the stored rule, list_rules returns
\* exactly the loaded names, and the registry is still the loaded one.
C21_LookupFindsExactlyLoadedNames ==
    (last_load.set /\ call.op \in LookupsByName \cup {"list_rules"}) =>
        /\ ret.ok
        /\ structured_rules = last_load.registry
        /\ call.op \in LookupsByName =>
              (ret.value # None <=> call.review_rule \in DOMAIN last_load.registry)
        /\ (call.op = "get_rule" /\ call.review_rule \in DOMAIN last_load.registry) =>
              ret.value = last_load.registry[call.review_rule]
        /\ call.op = "list_rules" => ret.value = DOMAIN last_load.registry

\* C21: two rules were loaded, TEST_RULE among them, and get_workflow_config
\* answered for TEST_RULE while a third name is not in the registry.
C21_Witness ==
    /\ last_load.set
    /\ Cardinality(DOMAIN last_load.registry) = 2
    /\ call.op = "get_workflow_config"
    /\ call.review_rule = "TEST_RULE"
    /\ ret.ok
    /\ ret.value # None
    /\ ret.value.review_rule = "TEST_RULE"
    /\ PolicyRuleNames \ DOMAIN structured_rules # {}

C30_UnknownRuleGetsOneWarning ==
    IsValidateCall =>
        /\ ret.ok
        /\ DOMAIN ret.value = DOMAIN rules_dict
        /\ \A rule_name \in DOMAIN rules_dict \ Range(KnownRules) :
              ret.value[rule_name] = <<[kind |-> "unknown_rule", rule |-> rule_name]>>
        /\ (DOMAIN rules_dict \ Range(KnownRules) # {}) =>
              \A other \in DOMAIN rules_dict \cap Range(KnownRules) :
                  {"required_agents", "risk_level"} \subseteq DOMAIN rules_dict[other] =>
                      ((ret.value[other] = <<>>)
                          <=> MatchesRouter(other, rules_dict[other]))

\* C30: ADDRESS_CHECK, declared with agents and a risk level, was validated next
\* to an IDENTITY_VERIFICATION entry with the wrong agents, which got its warning.
C30_Witness ==
    /\ IsValidateCall
    /\ DOMAIN rules_dict = {"ADDRESS_CHECK", "IDENTITY_VERIFICATION"}
    /\ rules_dict["ADDRESS_CHECK"] = RuleData("policy", "HIGH", <<"income">>)
    /\ rules_dict["IDENTITY_VERIFICATION"] = RuleData("policy", "HIGH", <<"income">>)
    /\ ret.ok
    /\ Len(ret.value["ADDRESS_CHECK"]) = 1
    /\ Len(ret.value["IDENTITY_VERIFICATION"]) = 1

----------------------------------------------------------------------------
(* Further properties of the execution plan *)

\* C26: rule_details has one record per element of the input list, repeated
\* names included, in the order of rules_by_priority; each record holds the rule
\* name, the risk level of the risk table, the rule's own agents with its
\* prerequisites, whatever earlier rules contributed, and is_critical as
\* is_critical_rule gives it.
C26_OneDetailRecordPerRule ==
    (IsPlanCall /\ AllKnown(call.review_rules) /\ ret.ok) =>
        LET details == ret.value.rule_details
        IN  /\ Len(details) = Len(call.review_rules)
            /\ Len(details) = Len(ret.value.rules_by_priority)
            /\ \A i \in 1..Len(details) :
                  LET rule == ret.value.rules_by_priority[i]
                      prerequisites ==
                          IF rule \in DOMAIN PREREQUISITES_initial
                          THEN PREREQUISITES_initial[rule] ELSE <<>>
                  IN  /\ details[i].rule = rule
                      /\ details[i].risk_level = RISK_LEVELS_initial[rule]
                      /\ details[i].agents =
                            AgentValues(FirstOccurrences(
                                prerequisites \o ROUTING_MAP_initial[rule]))
                      /\ details[i].is_critical = (RISK_LEVELS_initial[rule] = "CRITICAL")
                      /\ details[i].is_critical = is_critical_rule(rule)

\* C26: FRAUD_CHECK was named twice around IDENTITY_VERIFICATION: three records,
\* the second FRAUD_CHECK record with all three agents again.
C26_Witness ==
    /\ IsPlanCall
    /\ call.review_rules = <<"FRAUD_CHECK", "IDENTITY_VERIFICATION", "FRAUD_CHECK">>
    /\ ret.ok
    /\ Len(ret.value.rule_details) = 3
    /\ ret.value.rule_details[2].rule = "FRAUD_CHECK"
    /\ ret.value.rule_details[2].agents = <<"identity", "income", "fraud">>
    /\ ret.value.rule_details[3].agents = <<"identity">>

\* C27: execution_order is a function of the set of rules in the input: it is
\* [identity, income, fraud] cut down to the agents those rules require, so it
\* is a subsequence of that list, and every list with the same set of rules,
\* in any order and with any repeats, has the same execution_order.
C27_OrderDependsOnRuleSetOnly ==
    (IsPlanCall /\ AllKnown(call.review_rules) /\ ret.ok) =>
        LET required == UNION {Range(AgentValues(FirstOccurrences(
                                   (IF r \in DOMAIN PREREQUISITES_initial
                                    THEN PREREQUISITES_initial[r] ELSE <<>>)
                                       \o ROUTING_MAP_initial[r]))) :
                                  r \in Range(call.review_rules)}
        IN  /\ ret.value.execution_order =
                  SelectSeq(<<"identity", "income", "fraud">>, LAMBDA a : a \in required)
            /\ \A other \in RuleLists(MaxRules) :
                  Range(other) = Range(call.review_rules) =>
                      get_agent_execution_plan(other).value.execution_order
                          = ret.value.execution_order

\* C27: the MEDIUM rule was named first and twice, the HIGH rule in between.
C27_Witness ==
    /\ IsPlanCall
    /\ call.review_rules =
          <<"INCOME_VALIDATION", "IDENTITY_VERIFICATION", "INCOME_VALIDATION">>
    /\ ret.ok
    /\ ret.value.execution_order = <<"identity", "income">>

----------------------------------------------------------------------------
(* Rule generation only adds to the registry *)

GenerateOps == {"generate_structured_rules", "refresh_rules"}

\* C29: generate_structured_rules and refresh_rules only add or overwrite
\* registry entries.  A turn of the loop keeps every name and changes at most
\* the entry of the policy it is about; a policy that is skipped (no text, or
\* no rule extracted) leaves the registry as it is and the loop goes on to the
\* next policy.  At the return every name of the registry before the call is
\* still there, every entry not in the returned dictionary is the old one, and
\* the returned names are names of the registry.  Without a vector store or an
\* LLM the call raises RuntimeError and the registry is unchanged.
C29_GenerationOnlyAddsOrOverwrites ==
    [][ /\ (generating.active /\ generating'.active /\ generating' # generating) =>
              LET review_rule == Head(generating.policy_names)
                  skipped == generating'.generated_rules = generating.generated_rules
              IN  /\ DOMAIN structured_rules \subseteq DOMAIN structured_rules'
                  /\ \A name \in DOMAIN structured_rules \ {review_rule} :
                        structured_rules'[name] = structured_rules[name]
                  /\ skipped => structured_rules' = structured_rules
                  /\ generating'.policy_names = Tail(generating.policy_names)
        /\ (generating.active /\ ~generating'.active /\ call'.op \in GenerateOps) =>
              /\ ret'.ok
              /\ DOMAIN generating.before \subseteq DOMAIN structured_rules'
              /\ DOMAIN ret'.value \subseteq DOMAIN structured_rules'
              /\ \A name \in DOMAIN generating.before \ DOMAIN ret'.value :
                    structured_rules'[name] = generating.before[name]
              /\ \A name \in DOMAIN ret'.value :
                    ret'.value[name] = model_dump(structured_rules'[name])
        /\ (~generating.active /\ call'.op \in GenerateOps) =>
              IF vector_store /\ llm
              THEN generating'.active /\ generating'.before = structured_rules
              ELSE /\ ~ret'.ok
                   /\ ret'.error = "RuntimeError"
                   /\ ~generating'.active
                   /\ structured_rules' = structured_rules
      ]_vars

\* C29: a run has returned in which one policy was turned into a rule and
\* another was skipped, and the skipped one still has the entry of an earlier
\* run.
C29_Witness ==
    /\ call.op = "refresh_rules"
    /\ ~generating.active
    /\ ret.ok
    /\ DOMAIN ret.value = {"IDENTITY_VERIFICATION"}
    /\ DOMAIN structured_rules = {"FRAUD_CHECK", "IDENTITY_VERIFICATION"}

----------------------------------------------------------------------------
(* The router and the planner change nothing *)

\* C25: whatever calls of get_required_agents, get_agent_names, get_risk_level,
\* is_critical_rule, get_routing_summary, validate_structured_rules and
\* get_agent_execution_plan were made, and whatever the caller appended to a
\* list get_required_agents returned, the three tables are the declared ones,
\* the list or dict the caller passed is what it was, the list
\* get_required_agents returns is an object of its own, and its result is still
\* the one the declared tables give.
C25_RouterAndPlannerChangeNothing ==
    /\ ROUTING_MAP = ROUTING_MAP_initial
    /\ PREREQUISITES = PREREQUISITES_initial
    /\ RISK_LEVELS = RISK_LEVELS_initial
    /\ IsPlanCall =>
          caller.holds = "review_rules" /\ caller.value = call.review_rules
    /\ IsValidateCall =>
          caller.holds = "structured_rules" /\ caller.value = call.structured_rules
    /\ caller.holds = "result" => caller.object = NewList
    /\ (IsAgentsCall /\ ret.ok) =>
          /\ caller.holds = "result"
          /\ caller.value = ret.value
          /\ ret.value =
                FirstOccurrences(
                    (IF /\ call.include_prerequisites
                        /\ call.review_rule \in DOMAIN PREREQUISITES_initial
                     THEN PREREQUISITES_initial[call.review_rule] ELSE <<>>)
                        \o ROUTING_MAP_initial[call.review_rule])
    /\ call.op = "get_routing_summary" =>
          /\ DOMAIN ret.value = DOMAIN ROUTING_MAP_initial
          /\ \A rule \in DOMAIN ret.value :
                ret.value[rule].primary_agents = AgentValues(ROUTING_MAP_initial[rule])

\* C25: the caller has appended FRAUD to the list that
\* get_required_agents("IDENTITY_VERIFICATION") returned.
C25_Witness ==
    /\ call.op = "list.append"
    /\ caller.holds = "result"
    /\ caller.value = <<"IDENTITY", "FRAUD">>
    /\ ROUTING_MAP["IDENTITY_VERIFICATION"] = <<"IDENTITY">>

----------------------------------------------------------------------------
(* Properties of the decision *)

\* C22: once the decision of an application has been finalized it is terminal
\* and immutable: an add_finding made after that changes neither its
\* findings nor its decision.
C22_FinalizedDecisionIsImmutable ==
    [][ (aggregator.state = "FINALIZED" /\ call'.op = "add_finding") =>
            /\ decision'.findings = decision.findings
            /\ decision'.decision = decision.decision
      ]_vars

\* C23: whenever the findings of a finalized application hold a FAIL for a
\* check that a rule's decision criteria list as zero-tolerance, the decision
\* is DENIED and requires_manual_review is false.
C23_ZeroToleranceFailureDenies ==
    (aggregator.state = "FINALIZED"
        /\ ZeroToleranceFailure(decision.findings, aggregator.criteria)) =>
            /\ decision.decision = "DENIED"
            /\ ~decision.requires_manual_review

\* C24: findings is the findings given at construction followed by the added
\* ones in call order; has_critical_failures() is true exactly when some
\* finding is a FAIL of risk level CRITICAL; all_checks_passed() is true
\* exactly when every finding is a PASS, so it is true of no findings.
C24_FindingsAppendOnlyAndQueries ==
    /\ decision # None =>
          decision.findings = findings_log.initial \o findings_log.added
    /\ call.op = "has_critical_failures" =>
          ret.value = (\E i \in 1..Len(decision.findings) :
                          /\ decision.findings[i].status = "FAIL"
                          /\ decision.findings[i].risk_level = "CRITICAL")
    /\ call.op = "all_checks_passed" =>
          ret.value = (\A i \in 1..Len(decision.findings) :
                          decision.findings[i].status = "PASS")

\* C24: two different findings were added behind the one given at
\* construction, the last of them a critical failure, and the decision was
\* asked for critical failures.
C24_Witness ==
    /\ call.op = "has_critical_failures"
    /\ ret.value
    /\ Len(findings_log.initial) = 1
    /\ Len(findings_log.added) = 2
    /\ decision.findings[2].status = "PASS"
    /\ decision.findings[3].status = "FAIL"
    /\ decision.findings[3].risk_level = "CRITICAL"

====
